---- MODULE Spec2Model ----
(***************************************************************************)
(* get_provenance_graph(entity_iri, data_root) of oc_utils/src.py as a     *)
(* state machine: one call walks from the identifier parse (lines 15-17)   *)
(* through the three directory levels (18-26) to the archive scan (28-33). *)
(* Strings are sequences of one-character strings; a directory is a        *)
(* function from entry names to what the entry holds.  os.listdir returns  *)
(* the entries of a directory in an arbitrary order, which every listing   *)
(* action chooses afresh.                                                  *)
(***************************************************************************)
EXTENDS Integers, Sequences, FiniteSets, TLC

VARIABLES entity_iri, data_root, pc, supplier_prefix, sequential_number,
          rootRest, dir1, rest1, dir2, rest2, dir3, handles, data, result,
          listed, opened, calls, prev

vars == <<entity_iri, data_root, pc, supplier_prefix, sequential_number,
          rootRest, dir1, rest1, dir2, rest2, dir3, handles, data, result,
          listed, opened, calls, prev>>

\* ------------------------------------------------------------------ bounds
\* longest entity_iri of the identifier family
MaxIriLen == 4
\* most entries of one directory of the tree family
MaxEntries == 2
\* most objects of one se.json of the archive family
MaxObjs == 2
\* calls made one after the other on the same inputs
MaxCalls == 2

\* ------------------------------------------------------------- characters
DigitChars == <<"0", "1", "2", "3", "4", "5", "6", "7", "8", "9">>

IsDigitChar(c) == \E i \in 1..Len(DigitChars) : DigitChars[i] = c

DigitVal(c) == (CHOOSE i \in 1..Len(DigitChars) : DigitChars[i] = c) - 1

Max(S) == CHOOSE x \in S : \A y \in S : y <= x

Min(S) == CHOOSE x \in S : \A y \in S : x <= y

\* str.isdigit(): a non-empty string of digit characters
IsDigit(s) == Len(s) > 0 /\ \A i \in 1..Len(s) : IsDigitChar(s[i])

\* int(s) accepts what the model's alphabet can spell: a non-empty digit string
\* (int('') and int('p') raise ValueError)
IntOk(s) == Len(s) > 0 /\ \A i \in 1..Len(s) : IsDigitChar(s[i])

RECURSIVE IntOf(_)
\* int(s) of a digit string: leading zeros carry no value
IntOf(s) == IF s = <<>> THEN 0
            ELSE 10 * IntOf(SubSeq(s, 1, Len(s) - 1)) + DigitVal(s[Len(s)])

\* entity_iri.split('/')[-1]
LastSegment(s) ==
    LET slashes == {i \in 1..Len(s) : s[i] = "/"}
    IN  IF slashes = {} THEN s ELSE SubSeq(s, Max(slashes) + 1, Len(s))

\* s.find(c, start): the 0-based index of the first c at index >= start, or -1
Find(s, c, start) ==
    LET hits == {i \in start..(Len(s) - 1) : s[i + 1] = c}
    IN  IF hits = {} THEN -1 ELSE Min(hits)

\* the prefix search started at index 0: digits.find('0') for digits.find('0', 1)
SupplierPrefixFromZero(digits) == SubSeq(digits, 1, Find(digits, "0", 0) + 1)

\* digits[:digits.find('0', 1) + 1]
SupplierPrefixOf(digits) == SubSeq(digits, 1, Find(digits, "0", 1) + 1)

\* s.removeprefix(p)
RemovePrefix(s, p) ==
    IF Len(p) <= Len(s) /\ SubSeq(s, 1, Len(p)) = p
    THEN SubSeq(s, Len(p) + 1, Len(s))
    ELSE s

\* entity_iri + '/prov/'
ProvSuffix == <<"/", "p", "r", "o", "v", "/">>

TargetId(iri) == iri \o ProvSuffix

\* ---------------------------------------------------------------- sorting
\* sorted(..., key=int) is stable: x goes after every element whose key is <= its own
InsertByInt(t, x) ==
    LET k == Cardinality({i \in 1..Len(t) : IntOf(t[i]) <= IntOf(x)})
    IN  SubSeq(t, 1, k) \o <<x>> \o SubSeq(t, k + 1, Len(t))

\* the listing left in the order os.listdir gave it
Unsorted(s) == s

RECURSIVE SortedByInt(_)
SortedByInt(s) ==
    IF s = <<>> THEN <<>>
    ELSE InsertByInt(SortedByInt(SubSeq(s, 1, Len(s) - 1)), s[Len(s)])

\* [d for d in listing if d.isdigit()]
RECURSIVE DigitOnly(_)
DigitOnly(s) ==
    IF s = <<>> THEN <<>>
    ELSE IF IsDigit(Head(s)) THEN <<Head(s)>> \o DigitOnly(Tail(s))
    ELSE DigitOnly(Tail(s))

\* line 21 filtered to digit-only names as line 24 is
Level2Filtered(listing) == DigitOnly(listing)

\* the listing line 21 hands to sorted(): the whole of os.listdir(dir1_path)
Level2Candidates(listing) == listing

\* line 24 without its isdigit() filter
Level3Unfiltered(listing) == listing

\* the listing line 24 hands to sorted()
Level3Candidates(listing) == DigitOnly(listing)

\* the comparison with <= for <
QualifiesOrEqual(seqno, name) == seqno <= IntOf(name)

\* the test of lines 22 and 25
Qualifies(seqno, name) == seqno < IntOf(name)

\* line 35 without its break: the loop goes on to the next entry
NoBreak35(rest) == rest

\* the entries a loop still visits after the break of line 35 / line 34
AfterBreak35(rest) == <<>>

AfterBreak34(rest) == <<>>

\* the orders os.listdir may return the entries of a directory in
Listings(S) ==
    {f \in [1..Cardinality(S) -> S] : \A i, j \in DOMAIN f : f[i] = f[j] => i = j}

\* ---------------------------------------------------------------- results
Pending == [kind |-> "pending"]

NotFound == [kind |-> "none"]

Raised(exc, line) == [kind |-> "error", exc |-> exc, line |-> line]

Returned(obj) == [kind |-> "object", obj |-> obj]

NoDir == <<>>

\* the handles the with-statements of lines 28-29 hold open
ZipHandle == "se.zip"

EntryHandle == "se.json"

\* plain open() calls for the with-statements: nothing is closed on the way out
LeftOpen(h) == h

\* what leaving the with-blocks of lines 28-29 leaves open, by return or by exception
OnWithExit(h) == {}

\* the scan without the comparison of line 32: the first object is returned
RECURSIVE ScanAnyObject(_, _)
ScanAnyObject(objs, target) ==
    IF objs = <<>> THEN NotFound
    ELSE IF "@id" \notin DOMAIN Head(objs) THEN Raised("KeyError", 32)
    ELSE Returned(Head(objs))

\* the scan raising when the list is exhausted, for falling through to line 36
RECURSIVE ScanOrRaise(_, _)
ScanOrRaise(objs, target) ==
    IF objs = <<>> THEN Raised("LookupError", 33)
    ELSE IF "@id" \notin DOMAIN Head(objs) THEN Raised("KeyError", 32)
    ELSE IF Head(objs)["@id"] = target THEN Returned(Head(objs))
    ELSE ScanOrRaise(Tail(objs), target)

\* the scan of lines 31-33 over the loaded list: the first object decides
RECURSIVE ScanObjects(_, _)
ScanObjects(objs, target) ==
    IF objs = <<>> THEN NotFound
    ELSE IF "@id" \notin DOMAIN Head(objs) THEN Raised("KeyError", 32)
    ELSE IF Head(objs)["@id"] = target THEN Returned(Head(objs))
    ELSE ScanObjects(Tail(objs), target)

\* ----------------------------------------------------------------- inputs
Strings(C, n) == UNION {[1..k -> C] : k \in 0..n}

\* the characters identifiers of the identifier family are spelt with
IdChars == {"0", "1", "a", "/"}

\* the names the level-1 directories of data_root are drawn from
RootNames == {<<"1", "0">>, <<"0", "0">>}

\* the names the entries of a level-1 directory are drawn from
Names2 == {<<"1">>, <<"2">>, <<"0", "2">>, <<"p">>}

\* the names the entries of a level-2 directory are drawn from
Names3 == {<<"1">>, <<"2">>, <<"p">>}

\* a provenance object: its @id and the place it is stored at
Obj(id, src) == ("@id" :> id) @@ ("src" :> src)

\* an object that lacks the @id key
NoIdObj(src) == ("src" :> src)

\* an @id that differs from the target only by the final '/'
NearId(iri) == iri \o <<"/", "p", "r", "o", "v">>

Archive(state, objs) == [state |-> state, data |-> objs]

HitArchive(iri, path) == Archive("ok", <<Obj(TargetId(iri), path)>>)

MissArchive(iri, path) == Archive("ok", <<Obj(NearId(iri), path)>>)

\* a level-3 entry that holds no prov/se.zip
NoArchive == Archive("nozip", <<>>)

SmallSubsets(S) == {T \in SUBSET S : Cardinality(T) <= MaxEntries}

\* the shapes of a level-1 directory: its entries and the entries of each;
\* a non-numeric entry is a plain file
Shapes ==
    UNION {{f \in [D2 -> SmallSubsets(Names3)] :
                \A d \in D2 : ~IntOk(d) => f[d] = {}} : D2 \in SmallSubsets(Names2)}

\* the level-3 directories of a shape that can hold the entity's archive
HitPlaces(shape) ==
    {<<d2, d3>> : d2 \in DOMAIN shape, d3 \in Names3} \cap
    {p \in Names2 \X Names3 : p[2] \in shape[p[1]] /\ IsDigit(p[2])}

\* a Shard Tree of the given shape: every level-1 directory holds the shape, the
\* archive at hit (if any) holds the entity's object, every other one does not
TreeOf(iri, root, shape, hit) ==
    [n \in root |->
        [d2 \in DOMAIN shape |->
            [d3 \in shape[d2] |->
                IF ~IsDigit(d3) THEN NoArchive
                ELSE IF <<d2, d3>> = hit THEN HitArchive(iri, <<n, d2, d3>>)
                ELSE MissArchive(iri, <<n, d2, d3>>)]]]

\* the shape of one level-2 directory holding one level-3 directory
ChainShape == (<<"2">> :> {<<"2">>})

\* the tree of that shape with the given archive at its end
ChainTree(root, arch) ==
    [n \in root |-> [d2 \in DOMAIN ChainShape |-> [d3 \in ChainShape[d2] |-> arch]]]

\* identifier family: every short identifier against a one-chain tree that holds
\* the identifier's object
IdInputs ==
    {<<iri, TreeOf(iri, root, ChainShape, <<<<"2">>, <<"2">>>>)>> :
        iri \in Strings(IdChars, MaxIriLen), root \in SUBSET RootNames}

\* identifiers of supplier prefix "10" and sequential numbers 0, 1, 2
TreeIris == {<<"/", "1", "0", c>> : c \in {"0", "1", "2"}}

\* tree family: every small tree shape, the entity's archive anywhere or nowhere
TreeInputs ==
    UNION {UNION {{<<iri, TreeOf(iri, RootNames, shape, hit)>> :
                        hit \in HitPlaces(shape) \cup {<<>>}} :
                  shape \in Shapes} : iri \in TreeIris}

\* the objects an se.json of the archive family is made of
ObjPool(iri) ==
    {Obj(TargetId(iri), <<"a">>), Obj(TargetId(iri), <<"b">>),
     Obj(NearId(iri), <<"a">>), NoIdObj(<<"a">>)}

Archives(iri) ==
    {Archive(s, <<>>) : s \in {"nozip", "noentry", "badjson"}} \cup
    {Archive("ok", d) : d \in Strings(ObjPool(iri), MaxObjs)}

ArchiveIri == <<"/", "1", "0", "1">>

\* archive family: every small archive, sound or broken, at the end of one chain
ArchiveInputs ==
    {<<ArchiveIri, ChainTree({<<"1", "0">>}, arch)>> : arch \in Archives(ArchiveIri)}

Inputs == IdInputs \cup TreeInputs \cup ArchiveInputs

\* ------------------------------------------------------------------- call
\* the locals of a call before line 15 has run
Fresh ==
    /\ pc = "start"
    /\ supplier_prefix = <<>>
    /\ sequential_number = 0
    /\ rootRest = <<>>
    /\ dir1 = NoDir
    /\ rest1 = <<>>
    /\ dir2 = NoDir
    /\ rest2 = <<>>
    /\ dir3 = NoDir
    /\ handles = {}
    /\ data = <<>>
    /\ result = Pending
    /\ listed = {}
    /\ opened = {}

Init ==
    /\ \E in \in Inputs : entity_iri = in[1] /\ data_root = in[2]
    /\ Fresh
    /\ calls = 1
    /\ prev = Pending

\* lines 15-17
Parse ==
    /\ pc = "start"
    /\ LET digits == LastSegment(entity_iri)
           prefix == SupplierPrefixOf(digits)
           rem    == RemovePrefix(digits, prefix)
       IN  /\ supplier_prefix' = prefix
           /\ IF IntOk(rem)
              THEN /\ sequential_number' = IntOf(rem)
                   /\ pc' = "listroot"
                   /\ result' = result
              ELSE /\ sequential_number' = sequential_number
                   /\ pc' = "done"
                   /\ result' = Raised("ValueError", 17)
    /\ UNCHANGED <<entity_iri, data_root, rootRest, dir1, rest1, dir2, rest2, dir3,
                   handles, data, listed, opened, calls, prev>>

\* line 18: os.listdir(data_root)
ListRoot ==
    /\ pc = "listroot"
    /\ \E order \in Listings(DOMAIN data_root) : rootRest' = order
    /\ listed' = listed \cup {<<>>}
    /\ pc' = "root"
    /\ UNCHANGED <<entity_iri, data_root, supplier_prefix, sequential_number, dir1,
                   rest1, dir2, rest2, dir3, handles, data, result, opened, calls, prev>>

\* lines 18-20, 36: one iteration of the loop over data_root, or its end
RootLoop ==
    /\ pc = "root"
    /\ IF rootRest = <<>>
       THEN /\ result' = NotFound
            /\ pc' = "done"
            /\ UNCHANGED <<rootRest, dir1>>
       ELSE /\ rootRest' = Tail(rootRest)
            /\ result' = result
            /\ IF Head(rootRest) = supplier_prefix
               THEN dir1' = Head(rootRest) /\ pc' = "list1"
               ELSE dir1' = dir1 /\ pc' = pc
    /\ UNCHANGED <<entity_iri, data_root, supplier_prefix, sequential_number, rest1,
                   dir2, rest2, dir3, handles, data, listed, opened, calls, prev>>

\* line 21: sorted(os.listdir(dir1_path), key=int)
ListLevel1 ==
    /\ pc = "list1"
    /\ \E order \in Listings(DOMAIN data_root[dir1]) :
          LET cands == Level2Candidates(order)
          IN  IF \E i \in 1..Len(cands) : ~IntOk(cands[i])
              THEN /\ result' = Raised("ValueError", 21)
                   /\ pc' = "done"
                   /\ rest1' = rest1
              ELSE /\ rest1' = SortedByInt(cands)
                   /\ pc' = "loop1"
                   /\ result' = result
    /\ listed' = listed \cup {<<dir1>>}
    /\ UNCHANGED <<entity_iri, data_root, supplier_prefix, sequential_number, rootRest,
                   dir1, dir2, rest2, dir3, handles, data, opened, calls, prev>>

\* lines 21-23, 35: one iteration of the loop over the level-1 directory, or its end
Level1Loop ==
    /\ pc = "loop1"
    /\ IF rest1 = <<>>
       THEN /\ pc' = "root"
            /\ UNCHANGED <<rest1, dir2>>
       ELSE IF Qualifies(sequential_number, Head(rest1))
       THEN /\ dir2' = Head(rest1)
            /\ rest1' = AfterBreak35(Tail(rest1))
            /\ pc' = "list2"
       ELSE /\ rest1' = Tail(rest1)
            /\ UNCHANGED <<pc, dir2>>
    /\ UNCHANGED <<entity_iri, data_root, supplier_prefix, sequential_number, rootRest,
                   dir1, rest2, dir3, handles, data, result, listed, opened, calls, prev>>

\* line 24: sorted([d for d in os.listdir(dir2_path) if d.isdigit()], key=int)
ListLevel2 ==
    /\ pc = "list2"
    /\ \E order \in Listings(DOMAIN data_root[dir1][dir2]) :
          LET cands == Level3Candidates(order)
          IN  IF \E i \in 1..Len(cands) : ~IntOk(cands[i])
              THEN /\ result' = Raised("ValueError", 24)
                   /\ pc' = "done"
                   /\ rest2' = rest2
              ELSE /\ rest2' = SortedByInt(cands)
                   /\ pc' = "loop2"
                   /\ result' = result
    /\ listed' = listed \cup {<<dir1, dir2>>}
    /\ UNCHANGED <<entity_iri, data_root, supplier_prefix, sequential_number, rootRest,
                   dir1, rest1, dir2, dir3, handles, data, opened, calls, prev>>

\* lines 24-26, 34: one iteration of the loop over the level-2 directory, or its end
Level2Loop ==
    /\ pc = "loop2"
    /\ IF rest2 = <<>>
       THEN /\ pc' = "loop1"
            /\ UNCHANGED <<rest2, dir3>>
       ELSE IF Qualifies(sequential_number, Head(rest2))
       THEN /\ dir3' = Head(rest2)
            /\ rest2' = AfterBreak34(Tail(rest2))
            /\ pc' = "openzip"
       ELSE /\ rest2' = Tail(rest2)
            /\ UNCHANGED <<pc, dir3>>
    /\ UNCHANGED <<entity_iri, data_root, supplier_prefix, sequential_number, rootRest,
                   dir1, rest1, dir2, handles, data, result, listed, opened, calls, prev>>

\* the archive lines 26-28 name
ArchiveAt == data_root[dir1][dir2][dir3]

\* line 28: ZipFile(<dir3>/prov/se.zip)
OpenZip ==
    /\ pc = "openzip"
    /\ opened' = opened \cup {<<dir1, dir2, dir3>>}
    /\ IF ArchiveAt.state = "nozip"
       THEN /\ result' = Raised("FileNotFoundError", 28)
            /\ pc' = "done"
            /\ handles' = handles
       ELSE /\ handles' = handles \cup {ZipHandle}
            /\ pc' = "openentry"
            /\ result' = result
    /\ UNCHANGED <<entity_iri, data_root, supplier_prefix, sequential_number, rootRest,
                   dir1, rest1, dir2, rest2, dir3, data, listed, calls, prev>>

\* line 29: archive.open('se.json')
OpenEntry ==
    /\ pc = "openentry"
    /\ IF ArchiveAt.state = "noentry"
       THEN /\ result' = Raised("KeyError", 29)
            /\ pc' = "done"
            /\ handles' = OnWithExit(handles)
       ELSE /\ handles' = handles \cup {EntryHandle}
            /\ pc' = "load"
            /\ result' = result
    /\ UNCHANGED <<entity_iri, data_root, supplier_prefix, sequential_number, rootRest,
                   dir1, rest1, dir2, rest2, dir3, data, listed, opened, calls, prev>>

\* line 30: json.load(f)
LoadJson ==
    /\ pc = "load"
    /\ IF ArchiveAt.state = "badjson"
       THEN /\ result' = Raised("JSONDecodeError", 30)
            /\ pc' = "done"
            /\ handles' = OnWithExit(handles)
            /\ data' = data
       ELSE /\ data' = ArchiveAt.data
            /\ pc' = "scan"
            /\ UNCHANGED <<result, handles>>
    /\ UNCHANGED <<entity_iri, data_root, supplier_prefix, sequential_number, rootRest,
                   dir1, rest1, dir2, rest2, dir3, listed, opened, calls, prev>>

\* lines 31-34: the scan of the loaded list, leaving both with-blocks
Scan ==
    /\ pc = "scan"
    /\ LET found == ScanObjects(data, TargetId(entity_iri))
       IN  IF found = NotFound
           THEN pc' = "loop2" /\ result' = result
           ELSE pc' = "done" /\ result' = found
    /\ handles' = OnWithExit(handles)
    /\ UNCHANGED <<entity_iri, data_root, supplier_prefix, sequential_number, rootRest,
                   dir1, rest1, dir2, rest2, dir3, data, listed, opened, calls, prev>>

\* the caller calls again with the same arguments
CallAgain ==
    /\ pc = "done"
    /\ calls < MaxCalls
    /\ calls' = calls + 1
    /\ prev' = result
    /\ pc' = "start"
    /\ supplier_prefix' = <<>>
    /\ sequential_number' = 0
    /\ rootRest' = <<>>
    /\ dir1' = NoDir
    /\ rest1' = <<>>
    /\ dir2' = NoDir
    /\ rest2' = <<>>
    /\ dir3' = NoDir
    /\ handles' = {}
    /\ data' = <<>>
    /\ result' = Pending
    /\ listed' = {}
    /\ opened' = {}
    /\ UNCHANGED <<entity_iri, data_root>>

Next ==
    \/ Parse
    \/ ListRoot
    \/ RootLoop
    \/ ListLevel1
    \/ Level1Loop
    \/ ListLevel2
    \/ Level2Loop
    \/ OpenZip
    \/ OpenEntry
    \/ LoadJson
    \/ Scan
    \/ CallAgain

Spec == Init /\ [][Next]_vars

\* ----------------------------------------------------------------- claims
\* the decimal value of a digit string, read left to right
RECURSIVE ValFrom(_, _)
ValFrom(s, acc) ==
    IF s = <<>> THEN acc ELSE ValFrom(Tail(s), 10 * acc + DigitVal(Head(s)))

Val(s) == ValFrom(s, 0)

\* the final '/'-separated segment of the identifier
Digits == LastSegment(entity_iri)

\* the 0-based indices >= 1 at which the segment holds a '0'
ZeroAt == {i \in 1..(Len(Digits) - 1) : Digits[i + 1] = "0"}

\* line 17 did not raise
ParsedOk == pc # "start" /\ result # Raised("ValueError", 17)

Numeric(n) == Len(n) > 0 /\ \A i \in 1..Len(n) : IsDigitChar(n[i])

\* the entries of the level-1 directory named by the supplier prefix
Entries2 == DOMAIN data_root[supplier_prefix]

\* the entries of a level-2 directory
Entries3(d2) == DOMAIN data_root[supplier_prefix][d2]

Greater2 == {n \in Entries2 : Numeric(n) /\ Val(n) > sequential_number}

Greater3(d2) == {n \in Entries3(d2) : Numeric(n) /\ Val(n) > sequential_number}

\* every object of the archive carries an @id
AllHaveId(arch) == \A k \in 1..Len(arch.data) : "@id" \in DOMAIN arch.data[k]

Matches(arch) ==
    {k \in 1..Len(arch.data) :
        "@id" \in DOMAIN arch.data[k] /\ arch.data[k]["@id"] = entity_iri \o ProvSuffix}

\* C1: an identifier whose final segment has no '0' at index >= 1 makes the call
\* raise an error
C1_MalformedRaises ==
    (pc = "done" /\ ZeroAt = {}) => result.kind = "error"

\* C6 as stated: for every digit segment with a '0' at index >= 1 the parse yields
\* the prefix up to the first such '0' and the value of what follows it
C6_EveryZeroSegmentParses ==
    (pc # "start" /\ Numeric(Digits) /\ ZeroAt # {}) =>
        LET i == Min(ZeroAt)
        IN  /\ ParsedOk
            /\ supplier_prefix = SubSeq(Digits, 1, i + 1)
            /\ sequential_number = Val(SubSeq(Digits, i + 2, Len(Digits)))

\* C6 amended: for every digit segment with a '0' at index i >= 1 (i the smallest)
\* and at least one character after it, supplier_prefix is digits[0..i] and
\* sequential_number is the value of the characters after i; when nothing follows
\* i the call raises at line 17
C6_Parse ==
    (pc # "start" /\ Numeric(Digits) /\ ZeroAt # {}) =>
        LET i == Min(ZeroAt)
        IN  /\ supplier_prefix = SubSeq(Digits, 1, i + 1)
            /\ Len(Digits) > i + 1 =>
                  /\ ParsedOk
                  /\ sequential_number = Val(SubSeq(Digits, i + 2, Len(Digits)))
            /\ Len(Digits) = i + 1 => result = Raised("ValueError", 17)

\* a segment whose remainder has a leading zero has been parsed
C6_Witness ==
    /\ pc # "start"
    /\ Digits = <<"1", "0", "0", "1">>
    /\ supplier_prefix = <<"1", "0">>
    /\ sequential_number = 1

\* C3: the level-2 directory descended into has the smallest value strictly
\* greater than sequential_number; when no entry has a greater value the call
\* returns NotFound, and when one has, the call descends
C3_Level2Selection ==
    /\ dir2 # NoDir =>
          /\ dir2 \in Greater2
          /\ \A n \in Greater2 : Val(dir2) <= Val(n)
    /\ (pc = "done" /\ ParsedOk /\ supplier_prefix \in DOMAIN data_root
            /\ \A n \in Entries2 : Numeric(n)) =>
          /\ Greater2 = {} => (result.kind = "none" /\ dir2 = NoDir)
          /\ Greater2 # {} => dir2 # NoDir

\* sequential_number equals one entry's name and the next greater one is selected
C3_Witness ==
    /\ sequential_number = 1
    /\ dir2 = <<"2">>
    /\ <<"1">> \in Entries2

\* C4: at level 3 the non-digit names raise nothing and are never selected; the
\* directory descended into is the digit-only name of smallest value strictly
\* greater than sequential_number
C4_Level3Selection ==
    /\ dir3 # NoDir =>
          /\ dir3 \in Greater3(dir2)
          /\ \A n \in Greater3(dir2) : Val(dir3) <= Val(n)
    /\ result.kind = "error" => result.line # 24
    /\ (pc = "done" /\ result.kind # "error" /\ dir2 # NoDir /\ Greater3(dir2) # {})
          => dir3 # NoDir

\* a digit-only name is selected next to a non-digit sibling
C4_Witness ==
    /\ dir3 = <<"2">>
    /\ <<"p">> \in Entries3(dir2)

\* C2: for a well-formed identifier and a tree in which the first-strictly-greater
\* rule leads to an archive holding an object with @id = entity_iri + '/prov/',
\* the call returns that object (the first such one of the archive)
C2_RoundTrip ==
    (/\ pc = "done"
     /\ Numeric(Digits) /\ ZeroAt # {} /\ Len(Digits) > Min(ZeroAt) + 1
     /\ supplier_prefix \in DOMAIN data_root
     /\ \A n \in Entries2 : Numeric(n)
     /\ \A a, b \in Entries2 : Val(a) = Val(b) => a = b) =>
        \A e2 \in Greater2 : \A e3 \in Greater3(e2) :
            (/\ \A n \in Greater2 : Val(e2) <= Val(n)
             /\ \A n \in Greater3(e2) : Val(e3) <= Val(n)
             /\ \A n \in Greater3(e2) : Val(e3) = Val(n) => e3 = n
             /\ data_root[supplier_prefix][e2][e3].state = "ok"
             /\ AllHaveId(data_root[supplier_prefix][e2][e3])
             /\ Matches(data_root[supplier_prefix][e2][e3]) # {}) =>
                LET arch == data_root[supplier_prefix][e2][e3]
                IN  result = [kind |-> "object", obj |-> arch.data[Min(Matches(arch))]]

\* the object is returned from below a level-1 directory with a smaller sibling
C2_Witness ==
    /\ pc = "done"
    /\ result.kind = "object"
    /\ result.obj["@id"] = entity_iri \o ProvSuffix
    /\ dir2 = <<"2">>
    /\ <<"1">> \in Entries2

\* C5: each not-found condition yields NotFound and never an error: (a) no entry
\* of data_root is named supplier_prefix, (b) no level-2 directory has a greater
\* value, (c) no digit-named level-3 directory has a greater value, (d) the
\* archive is readable and holds no object with the entity's @id
C5_NotFound ==
    (pc = "done" /\ ParsedOk) =>
        /\ supplier_prefix \notin DOMAIN data_root => result.kind = "none"
        /\ (/\ supplier_prefix \in DOMAIN data_root
            /\ \A n \in Entries2 : Numeric(n)
            /\ Greater2 = {}) => result.kind = "none"
        /\ (dir2 # NoDir /\ Greater3(dir2) = {}) => result.kind = "none"
        /\ (/\ dir3 # NoDir
            /\ ArchiveAt.state = "ok"
            /\ AllHaveId(ArchiveAt)
            /\ Matches(ArchiveAt) = {}) => result.kind = "none"

\* an archive was read to its end without a match
C5_Witness ==
    /\ pc = "done"
    /\ result.kind = "none"
    /\ opened # {}
    /\ Len(ArchiveAt.data) > 0

\* C7: a non-numeric entry of the level-1 directory named supplier_prefix makes
\* the call raise at line 21 whatever else the directory holds; a non-numeric
\* entry of a listed level-2 directory raises no ValueError
C7_FilterAsymmetry ==
    /\ (/\ pc = "done" /\ ParsedOk
        /\ supplier_prefix \in DOMAIN data_root
        /\ \E n \in Entries2 : ~Numeric(n)) => result = Raised("ValueError", 21)
    /\ (/\ <<dir1, dir2>> \in listed
        /\ \E n \in Entries3(dir2) : ~Numeric(n)) =>
            ~(result.kind = "error" /\ result.exc = "ValueError")

\* the error is raised although a qualifying numeric entry stands beside the name
C7_Witness ==
    /\ pc = "done"
    /\ result = Raised("ValueError", 21)
    /\ Greater2 # {}

\* C8: outside lines 29-33 no handle is open; in particular none is when the
\* call has returned or raised
C8_HandlesReleased ==
    pc \notin {"openentry", "load", "scan"} => handles = {}

\* the call raised while reading an object's @id, both handles having been open
C8_Witness ==
    /\ pc = "done"
    /\ result = Raised("KeyError", 32)
    /\ opened # {}
    /\ handles = {}

\* C9: a call lists at most one level-2 directory and opens at most one archive;
\* when the selected level-2 directory has no qualifying level-3 directory, or
\* the selected archive no matching object, the call returns NotFound
C9_NoBacktracking ==
    /\ Cardinality({p \in listed : Len(p) = 2}) <= 1
    /\ Cardinality(opened) <= 1
    /\ dir2 # NoDir /\ pc \notin {"list2"} => listed = {<<>>, <<dir1>>, <<dir1, dir2>>}
    /\ (pc = "done" /\ dir2 # NoDir /\ Greater3(dir2) = {}) =>
            (result.kind = "none" /\ opened = {})
    /\ (/\ pc = "done" /\ dir3 # NoDir
        /\ ArchiveAt.state = "ok" /\ AllHaveId(ArchiveAt) /\ Matches(ArchiveAt) = {}) =>
            (result.kind = "none" /\ opened = {<<dir1, dir2, dir3>>})

\* NotFound is returned although a later level-2 directory holds the object
C9_Witness ==
    /\ pc = "done"
    /\ result.kind = "none"
    /\ dir2 # NoDir
    /\ \E e2 \in Greater2 : \E e3 \in Greater3(e2) :
          /\ Val(e2) > Val(dir2)
          /\ Matches(data_root[supplier_prefix][e2][e3]) # {}

\* C10 as stated: with pairwise distinct sibling names, a second call on the same
\* inputs ends as the first did, whatever orders the listings came in
C10_AnyDistinctNames ==
    (pc = "done" /\ prev # Pending) => result = prev

\* sibling names that are numbers have pairwise distinct values
DistinctValues ==
    \A n1 \in DOMAIN data_root :
        /\ \A a, b \in DOMAIN data_root[n1] :
              (Numeric(a) /\ Numeric(b) /\ Val(a) = Val(b)) => a = b
        /\ \A d2 \in DOMAIN data_root[n1] : \A a, b \in DOMAIN data_root[n1][d2] :
              (Numeric(a) /\ Numeric(b) /\ Val(a) = Val(b)) => a = b

\* C10 amended: when the numeric sibling names have pairwise distinct integer
\* values, a second call on the same inputs ends as the first did, whatever
\* orders the listings came in
C10_OrderIndependent ==
    (pc = "done" /\ prev # Pending /\ DistinctValues) => result = prev

\* the second call returned the object out of a level-1 directory of two entries
C10_Witness ==
    /\ pc = "done"
    /\ prev.kind = "object"
    /\ result.kind = "object"
    /\ DistinctValues
    /\ Cardinality(Entries2) >= 2

====
